---- MODULE Spec2Model ----
(***************************************************************************)
(* A model of telegrambot.py: the ledger of posted articles (load, prune,  *)
(* record, persist), the keyword filter with its locale buckets and        *)
(* ranking, and the autopost loop that drives the Rewriter, the            *)
(* Illustrator and the Publisher.                                          *)
(*                                                                         *)
(* Text is a sequence of one-character strings, so that lower-casing and   *)
(* substring matching are computed as Python computes them.  The module    *)
(* is ASCII: the Cyrillic keywords of the source are written in Latin      *)
(* transliteration ("rkn" for the source's three-letter regulator          *)
(* acronym, "rf", "moskv").                                                *)
(***************************************************************************)
EXTENDS Integers, Sequences, FiniteSets, TLC

VARIABLES
    pc,               \* position of the process: off, loaded, cleaned, attempting, done, crashed
    now,              \* datetime.now().timestamp(), in seconds
    posted_file,      \* POSTED_FILE on disk
    posted_articles,  \* the in-memory ledger: id -> timestamp or None
    pruned,           \* entries dropped by the latest clean_old_posts
    raw,              \* result of load_articles_from_sites()
    candidates,       \* result of filter_articles(raw)
    idx,              \* position of the for loop in candidates[:5] (1-based)
    last,             \* outcomes of the latest loop iteration
    delivered,        \* ids of the messages the channel received in this run
    sent_at,          \* id -> time of its latest delivery to the channel, or None
    images,           \* img_<n>.jpg files present in the working directory
    run_start,        \* clock at the start of the current process
    runs,             \* processes started so far
    sites             \* what 3DNews, VC.ru, Xakep.ru and GitHub Trending serve

vars == <<pc, now, posted_file, posted_articles, pruned, raw, candidates, idx,
          last, delivered, sent_at, images, run_start, runs, sites>>

-----------------------------------------------------------------------------
(* Bounds of the model *)

MaxRuns == 2
SiteLen == 3
MaxRichBatch == 2
MaxImg == 1
MaxDays == 8

(* Program constants *)

RETENTION_DAYS == 7
SecondsPerDay == 86400
MaxAttempts == 5

None == <<>>
Some(t) == <<t>>

-----------------------------------------------------------------------------
(* Text *)

Sp == <<" ">>
W_vpn == <<"v", "p", "n">>
W_VPN == <<"V", "P", "N">>
W_proxy == <<"p", "r", "o", "x", "y">>
W_openvpn == <<"o", "p", "e", "n", "v", "p", "n">>
W_security == <<"s", "e", "c", "u", "r", "i", "t", "y">>
W_patch == <<"p", "a", "t", "c", "h">>
W_steam == <<"s", "t", "e", "a", "m">>
W_Steam == <<"S", "t", "e", "a", "m">>
W_tesla == <<"t", "e", "s", "l", "a">>
W_rkn == <<"r", "k", "n">>
W_rf == <<"r", "f">>
W_moskv == <<"m", "o", "s", "k", "v">>

UpperChars == <<"A","B","C","D","E","F","G","H","I","J","K","L","M",
                "N","O","P","Q","R","S","T","U","V","W","X","Y","Z">>
LowerChars == <<"a","b","c","d","e","f","g","h","i","j","k","l","m",
                "n","o","p","q","r","s","t","u","v","w","x","y","z">>

LowerOf ==
    [c \in {UpperChars[k] : k \in 1..Len(UpperChars)} |->
        LowerChars[CHOOSE k \in 1..Len(UpperChars) : UpperChars[k] = c]]

\* str.lower() on one character
LowerChar(c) == IF c \in DOMAIN LowerOf THEN LowerOf[c] ELSE c

\* str.lower()
Lower(text) == [k \in 1..Len(text) |-> LowerChar(text[k])]

\* Python's  kw in text  on strings
Contains(kw, text) ==
    \E k \in 1..(Len(text) - Len(kw) + 1) : SubSeq(text, k, k + Len(kw) - 1) = kw

\* The entries of the source's lists that can occur in a text built from the
\* words above; every other entry matches none of the model's texts.
REQUIRE_KEYWORDS ==
    <<W_vpn, W_proxy, W_security, W_rkn, W_openvpn, W_security \o Sp \o W_patch>>

EXCLUDE_KEYWORDS == <<W_steam, W_tesla>>

RUSSIA_KEYWORDS == <<W_rf, W_moskv, W_rkn>>

\* any(kw in text for kw in kws)
AnyKeyword(kws, text) == \E k \in 1..Len(kws) : Contains(kws[k], text)

check_require_keywords_One(text) ==
    LET text_lower == Lower(text)
        score == Cardinality({k \in 1..Len(REQUIRE_KEYWORDS) :
                                Contains(REQUIRE_KEYWORDS[k], text_lower)})
    IN  score >= 1

check_require_keywords(text) ==
    LET text_lower == Lower(text)
        score == Cardinality({k \in 1..Len(REQUIRE_KEYWORDS) :
                                Contains(REQUIRE_KEYWORDS[k], text_lower)})
    IN  score >= 2

\* f"{e['title']} {e['summary']}".lower()
TextOf(e) == Lower(e.title \o Sp \o e.summary)

-----------------------------------------------------------------------------
(* Filtering *)

Suitable_NoDedup(e, posted) ==
    /\ ~AnyKeyword(EXCLUDE_KEYWORDS, TextOf(e))
    /\ check_require_keywords(TextOf(e))

Suitable_NoExclude(e, posted) ==
    /\ e.id \notin DOMAIN posted
    /\ check_require_keywords(TextOf(e))

Suitable_DedupDated(e, posted) ==
    /\ (e.id \notin DOMAIN posted \/ posted[e.id] = None)
    /\ ~AnyKeyword(EXCLUDE_KEYWORDS, TextOf(e))
    /\ check_require_keywords(TextOf(e))

\* the three `continue` tests of the loop of filter_articles
Suitable(e, posted) ==
    /\ e.id \notin DOMAIN posted
    /\ ~AnyKeyword(EXCLUDE_KEYWORDS, TextOf(e))
    /\ check_require_keywords(TextOf(e))

IsRu(e) == AnyKeyword(RUSSIA_KEYWORDS, TextOf(e))

\* list.sort(key=published_parsed, reverse=True): stable, equal keys keep their order
RECURSIVE InsertDesc(_, _)
InsertDesc(e, s) ==
    IF s = <<>> THEN <<e>>
    ELSE IF e.published_parsed > Head(s).published_parsed THEN <<e>> \o s
    ELSE <<Head(s)>> \o InsertDesc(e, Tail(s))

RECURSIVE SortDesc(_)

SortDesc_Unstable(s) ==
    IF s = <<>> THEN <<>>
    ELSE InsertDesc(s[1], SortDesc(Tail(s)))

SortDesc(s) ==
    IF s = <<>> THEN <<>>
    ELSE InsertDesc(s[Len(s)], SortDesc(SubSeq(s, 1, Len(s) - 1)))

suitable_ru(articles, posted) ==
    SelectSeq(articles, LAMBDA e : Suitable(e, posted) /\ IsRu(e))

suitable_world(articles, posted) ==
    SelectSeq(articles, LAMBDA e : Suitable(e, posted) /\ ~IsRu(e))

filter_articles_Merged(articles, posted) ==
    SortDesc(suitable_ru(articles, posted) \o suitable_world(articles, posted))

filter_articles(articles, posted) ==
    LET ru == suitable_ru(articles, posted)
        world == suitable_world(articles, posted)
        target == IF ru # <<>> THEN ru ELSE world
    IN  SortDesc(target)

-----------------------------------------------------------------------------
(* The ledger and its file *)

Ids == {"a", "b", "c"}
IdOrder == <<"a", "b", "c">>

EmptyLedger == <<>>

Put(m, id, v) == [x \in (DOMAIN m) \cup {id} |-> IF x = id THEN v ELSE m[x]]

Restrict(m, S) == [x \in S |-> m[x]]

\* [{"id": i, "timestamp": ts} for i, ts in posted_articles.items()]
\* (the items are listed in the order of IdOrder)
Dump(m) ==
    LET present == SelectSeq(IdOrder, LAMBDA x : x \in DOMAIN m)
    IN  [k \in 1..Len(present) |-> [id |-> present[k], timestamp |-> m[present[k]]]]

MissingFile == [state |-> "missing", data |-> <<>>]
CorruptFile == [state |-> "corrupt", data |-> <<>>]
JsonFile(data) == [state |-> "json", data |-> data]

\* lines 77-85: {item["id"]: item.get("timestamp") for item in posted_data},
\* the later of two items with one id wins; {} when the file is missing or
\* does not parse
LoadPosted(file) ==
    IF file.state = "json"
    THEN [x \in {file.data[k].id : k \in 1..Len(file.data)} |->
            LET at == CHOOSE k \in 1..Len(file.data) :
                        /\ file.data[k].id = x
                        /\ \A j \in (k + 1)..Len(file.data) : file.data[j].id # x
            IN  file.data[at].timestamp]
    ELSE EmptyLedger

\* open(POSTED_FILE, "w") and json.dump: the write succeeds, or raises with
\* the file untouched (open failed) or truncated (the dump failed part-way)
WriteOutcomes == {"ok", "unchanged", "torn"}

save_posted_articles(outcome, m, file) ==
    IF outcome = "ok" THEN JsonFile(Dump(m))
    ELSE IF outcome = "unchanged" THEN file
    ELSE CorruptFile

clean_old_posts_AtCutoff(posted, t) ==
    LET cutoff == t - (RETENTION_DAYS * SecondsPerDay)
    IN  Restrict(posted, {x \in DOMAIN posted :
                            posted[x] = None \/ posted[x][1] >= cutoff})

clean_old_posts_DropsNull(posted, t) ==
    LET cutoff == t - (RETENTION_DAYS * SecondsPerDay)
    IN  Restrict(posted, {x \in DOMAIN posted :
                            posted[x] # None /\ posted[x][1] > cutoff})

\* the dict comprehension of clean_old_posts
clean_old_posts(posted, t) ==
    LET cutoff == t - (RETENTION_DAYS * SecondsPerDay)
    IN  Restrict(posted, {x \in DOMAIN posted :
                            posted[x] = None \/ posted[x][1] > cutoff})

\* posted_articles[article_id] = datetime.now().timestamp()
save_posted(posted, article_id, t) == Put(posted, article_id, Some(t))

-----------------------------------------------------------------------------------------------------------------------------------------------------
(* Articles the sources can serve *)

Article(id, title, summary) ==
    [id |-> id, title |-> title, summary |-> summary, link |-> id]

ArtA == Article("a", W_vpn \o Sp \o W_proxy, <<>>)
ArtB == Article("b", W_openvpn, <<>>)

RichPool ==
    { Article("a", W_VPN \o Sp \o W_proxy, <<>>),
      Article("b", W_openvpn, <<>>),
      Article("c", W_vpn, <<>>),
      Article("a", W_rkn \o Sp \o W_vpn, <<>>),
      Article("c", W_security, W_patch),
      Article("b", W_rkn, <<>>),
      Article("a", W_rkn \o Sp \o W_vpn, W_Steam),
      Article("b", W_tesla \o Sp \o W_vpn, W_proxy),
      Article("c", W_vpn \o Sp \o W_proxy, W_rf) }

\* a page or feed of n items that alternates two articles
Feed(n, first, second) == [j \in 1..n |-> IF j % 2 = 1 THEN first ELSE second]

\* load_3dnews, load_vc_new: every link found becomes a record, [] when
\* safe_get returns None (the pages of the model are shorter than the caps)
load_page(page, up) == IF up THEN page ELSE <<>>

\* load_rss: the entries with a link and a title, [] when the feed has none
load_rss(feed, up) ==
    IF up THEN SelectSeq(feed, LAMBDA e : e.link # "" /\ e.title # <<>>) ELSE <<>>

\* load_articles_from_sites: the four adapters in order
load_articles_from_sites(web, up) ==
    load_page(web[1], up[1]) \o load_page(web[2], up[2])
        \o load_rss(web[3], up[3]) \o load_rss(web[4], up[4])

\* which sources answer: a source that serves nothing returns [] either way
Reachability(web) == {up \in [1..4 -> BOOLEAN] : \A j \in 1..4 : (web[j] = <<>>) => up[j]}

\* the call of load_rss in which feedparser.parse raises: none, the call for
\* Xakep.ru (the third adapter) or the call for GitHub Trending (the fourth)
FeedFaults == {0, 3, 4}

\* an adapter stamps each record with datetime.now() as it appends it: the
\* first `k` records at the clock's value, the others one second later
Stamp(f, k, t) ==
    [j \in 1..Len(f) |->
        [id |-> f[j].id, title |-> f[j].title, summary |-> f[j].summary,
         link |-> f[j].link,
         published_parsed |-> IF j <= k THEN t ELSE t + 1]]

Min(x, y) == IF x <= y THEN x ELSE y

NoAttempt ==
    [id |-> "", rewrite |-> "none", img |-> 0, send |-> "skipped",
     remove |-> "skipped", save |-> "skipped"]

Outcomes_ImageRequired ==
    { o \in [rewrite : {"ok", "fail"}, img : 0..MaxImg,
             send : {"ok", "raise", "skipped"},
             remove : {"ok", "raise", "skipped"},
             save : WriteOutcomes \cup {"skipped"}] :
        /\ (o.rewrite = "fail") => (o.img = 0)
        /\ (o.send # "skipped") <=> (o.rewrite = "ok" /\ o.img # 0)
        /\ (o.remove # "skipped") <=> (o.img # 0 /\ o.send = "ok")
        /\ (o.save # "skipped") <=> (o.send = "ok" /\ o.remove # "raise") }

Outcomes_PublishUnrewritten ==
    { o \in [rewrite : {"ok", "fail"}, img : 0..MaxImg,
             send : {"ok", "raise", "skipped"},
             remove : {"ok", "raise", "skipped"},
             save : WriteOutcomes \cup {"skipped"}] :
        /\ o.send # "skipped"
        /\ (o.remove # "skipped") <=> (o.img # 0 /\ o.send = "ok")
        /\ (o.save # "skipped") <=> (o.send = "ok" /\ o.remove # "raise") }

\* what one iteration of the loop of autopost can meet
Outcomes ==
    { o \in [rewrite : {"ok", "fail"}, img : 0..MaxImg,
             send : {"ok", "raise", "skipped"},
             remove : {"ok", "raise", "skipped"},
             save : WriteOutcomes \cup {"skipped"}] :
        /\ (o.rewrite = "fail") => (o.img = 0 /\ o.send = "skipped")
        /\ (o.rewrite = "ok") => (o.send # "skipped")
        /\ (o.remove # "skipped") <=> (o.img # 0 /\ o.send = "ok")
        /\ (o.save # "skipped") <=> (o.send = "ok" /\ o.remove # "raise") }

Prefix_Unbounded(s) == s

\* candidates[:5]
Prefix(s) == SubSeq(s, 1, Min(Len(s), MaxAttempts))

-----------------------------------------------------------------------------
(* The process *)

\* module import: the ledger is read from POSTED_FILE
Startup ==
    /\ pc = "off"
    /\ runs < MaxRuns
    /\ pc' = "loaded"
    /\ runs' = runs + 1
    /\ run_start' = now
    /\ posted_articles' = LoadPosted(posted_file)
    /\ UNCHANGED <<now, posted_file, pruned, raw, candidates, idx, last,
                   delivered, sent_at, images, sites>>

\* autopost, line 219: clean_old_posts(); a failed write escapes autopost
CleanOldPosts ==
    /\ pc = "loaded"
    /\ \E w \in WriteOutcomes :
        LET kept == clean_old_posts(posted_articles, now)
        IN  /\ posted_articles' = kept
            /\ pruned' = Restrict(posted_articles,
                                  (DOMAIN posted_articles) \ (DOMAIN kept))
            /\ posted_file' = save_posted_articles(w, kept, posted_file)
            /\ pc' = IF w = "ok" THEN "cleaned" ELSE "crashed"
    /\ UNCHANGED <<now, raw, candidates, idx, last, delivered, sent_at, images,
                   run_start, runs, sites>>

\* autopost, lines 220-221: candidates = filter_articles(load_articles_from_sites());
\* an exception of feedparser.parse is caught nowhere and escapes autopost
Collect ==
    /\ pc = "cleaned"
    /\ \E up \in Reachability(sites), boom \in FeedFaults :
        LET got == load_articles_from_sites(sites, up)
        IN  \E k \in (IF got = <<>> THEN {0} ELSE 1..Len(got)) :
              LET batch == Stamp(got, k, now)
                  found == filter_articles(batch, posted_articles)
              IN  /\ raw' = IF boom = 0 THEN batch ELSE raw
                  /\ now' = IF k < Len(got) THEN now + 1 ELSE now
                  /\ candidates' = IF boom = 0 THEN found ELSE candidates
                  /\ pc' = IF boom # 0 THEN "crashed"
                           ELSE IF found = <<>> THEN "done" ELSE "attempting"
    /\ idx' = 1
    /\ UNCHANGED <<posted_file, posted_articles, pruned, last, delivered, sent_at,
                   images, run_start, runs, sites>>

\* autopost, lines 223-238: one iteration of  for art in candidates[:5]
Attempt ==
    /\ pc = "attempting"
    /\ idx <= Len(Prefix(candidates))
    /\ \E o \in Outcomes :
        LET art == Prefix(candidates)[idx]
            recorded == IF o.save # "skipped"
                        THEN save_posted(posted_articles, art.id, now)
                        ELSE posted_articles
            finished == (o.save = "ok") \/ (idx + 1 > Len(Prefix(candidates)))
        IN  /\ last' = [id |-> art.id, rewrite |-> o.rewrite, img |-> o.img,
                        send |-> o.send, remove |-> o.remove, save |-> o.save]
            /\ images' = IF o.img = 0 THEN images
                         ELSE IF o.remove = "ok" THEN images \ {o.img}
                         ELSE images \cup {o.img}
            /\ delivered' = IF o.send = "ok" THEN Append(delivered, art.id)
                            ELSE delivered
            /\ sent_at' = IF o.send = "ok" THEN [sent_at EXCEPT ![art.id] = Some(now)]
                          ELSE sent_at
            /\ posted_articles' = recorded
            /\ posted_file' = IF o.save # "skipped"
                              THEN save_posted_articles(o.save, recorded, posted_file)
                              ELSE posted_file
            /\ idx' = IF o.save = "ok" THEN idx ELSE idx + 1
            /\ pc' = IF finished THEN "done" ELSE "attempting"
    /\ UNCHANGED <<now, pruned, raw, candidates, run_start, runs, sites>>

\* main: bot.session.close() and the end of the process; its memory is gone
Exit ==
    /\ pc \in {"done", "crashed"}
    /\ pc' = "off"
    /\ posted_articles' = EmptyLedger
    /\ pruned' = EmptyLedger
    /\ raw' = <<>>
    /\ candidates' = <<>>
    /\ idx' = 1
    /\ last' = NoAttempt
    /\ delivered' = <<>>
    /\ UNCHANGED <<now, posted_file, sent_at, images, run_start, runs, sites>>

\* time passes between two runs of the job
TickSteps == {6 * SecondsPerDay, 7 * SecondsPerDay, 8 * SecondsPerDay}

Tick ==
    /\ pc = "off"
    /\ runs < MaxRuns
    /\ \E d \in TickSteps :
        /\ now + d <= MaxDays * SecondsPerDay
        /\ now' = now + d
    /\ UNCHANGED <<pc, posted_file, posted_articles, pruned, raw, candidates, idx,
                   last, delivered, sent_at, images, run_start, runs, sites>>

-----------------------------------------------------------------------------
(* Specifications *)

InitFiles ==
    { MissingFile, CorruptFile,
      JsonFile(<<[id |-> "a", timestamp |-> None]>>),
      JsonFile(<<[id |-> "a", timestamp |-> Some(0)]>>),
      JsonFile(<<[id |-> "a", timestamp |-> None], [id |-> "b", timestamp |-> Some(0)]>>) }

InitCommon ==
    /\ pc = "off"
    /\ posted_articles = EmptyLedger
    /\ pruned = EmptyLedger
    /\ raw = <<>>
    /\ candidates = <<>>
    /\ idx = 1
    /\ last = NoAttempt
    /\ delivered = <<>>
    /\ sent_at = [x \in Ids |-> None]
    /\ images = {}
    /\ runs = 0
    /\ run_start = 0

\* The job run again and again over the same small pages; the 3DNews page
\* carries one link twice.
Init ==
    /\ InitCommon
    /\ now = 0
    /\ posted_file \in InitFiles
    /\ sites = <<Feed(2, ArtA, ArtA), <<>>, Feed(1, ArtB, ArtA), <<>>>>

Next == Startup \/ CleanOldPosts \/ Collect \/ Attempt \/ Exit \/ Tick

Spec == Init /\ [][Next]_vars

\* One run of the job over pages long enough to outlast candidates[:5].
RunInit ==
    /\ InitCommon
    /\ now = 0
    /\ posted_file \in InitFiles
    /\ sites = <<Feed(SiteLen, ArtA, ArtB), <<>>, Feed(SiteLen, ArtB, ArtA), <<>>>>

RunNext == Startup \/ CleanOldPosts \/ Collect \/ Attempt

RunSpec == RunInit /\ [][RunNext]_vars

\* The ledger functions and the filter on drawn ledgers, clocks and batches.
RichLedgers ==
    { m \in [Ids -> {"absent", "null", "old", "recent"}] :
        /\ m["a"] # "recent"
        /\ m["b"] \in {"absent", "recent"}
        /\ m["c"] = "absent" }

RichFile(m) ==
    LET present == SelectSeq(IdOrder, LAMBDA x : m[x] # "absent")
    IN  JsonFile([k \in 1..Len(present) |->
                    [id |-> present[k],
                     timestamp |-> IF m[present[k]] = "null" THEN None
                                   ELSE IF m[present[k]] = "old" THEN Some(0)
                                   ELSE Some(SecondsPerDay)]])

SeqsUpTo(S, n) == UNION { [1..k -> S] : k \in 0..n }

RichSites ==
    { <<p, <<>>, f, <<>>>> :
        <<p, f>> \in { pf \in SeqsUpTo(RichPool, MaxRichBatch)
                                \X SeqsUpTo(RichPool, MaxRichBatch) :
                         Len(pf[1]) <= 1 /\ Len(pf[1]) + Len(pf[2]) <= MaxRichBatch } }

FilterInit ==
    /\ InitCommon
    /\ now \in { d * SecondsPerDay : d \in {RETENTION_DAYS, RETENTION_DAYS + 1} }
    /\ posted_file \in {MissingFile, CorruptFile} \cup {RichFile(m) : m \in RichLedgers}
    /\ sites \in RichSites

FilterNext == Startup \/ CleanOldPosts \/ Collect

FilterSpec == FilterInit /\ [][FilterNext]_vars

-----------------------------------------------------------------------------
(* Vocabulary of the properties *)

Cutoff == now - (RETENTION_DAYS * SecondsPerDay)

\* the ledger as the program has it: in memory while a process runs, read
\* from POSTED_FILE by the next process otherwise
Ledger == IF pc = "off" THEN LoadPosted(posted_file) ELSE posted_articles

HasNull(x) == x \in DOMAIN Ledger /\ Ledger[x] = None

\* filter_articles has returned and no candidate has been attempted yet
AfterFilter == pc \in {"attempting", "done"} /\ last = NoAttempt

\* the step is an iteration of the loop on a candidate with id x
Attempts(x) == pc = "attempting" /\ Prefix(candidates)[idx].id = x

LowerText(e) == Lower(e.title \o Sp \o e.summary)

Score(e) ==
    Cardinality({k \in 1..Len(REQUIRE_KEYWORDS) :
                    Contains(REQUIRE_KEYWORDS[k], LowerText(e))})

Excluded(e) ==
    \E k \in 1..Len(EXCLUDE_KEYWORDS) : Contains(EXCLUDE_KEYWORDS[k], LowerText(e))

Locale(e) ==
    \E k \in 1..Len(RUSSIA_KEYWORDS) : Contains(RUSSIA_KEYWORDS[k], LowerText(e))

Eligible(e) == e.id \notin DOMAIN posted_articles /\ ~Excluded(e) /\ Score(e) >= 2

InOutput(e) == \E j \in 1..Len(candidates) : candidates[j] = e

EligibleAt == {j \in 1..Len(raw) : Eligible(raw[j])}

LocaleAt == {j \in EligibleAt : Locale(raw[j])}

\* ids of candidates that the ledger holds: the entries this run has added
Gained == {candidates[j].id : j \in 1..Len(candidates)} \cap DOMAIN posted_articles

-----------------------------------------------------------------------------
(* Properties *)

\* C1: in one run at most one message is delivered to the channel, and once a
\* send has succeeded the loop is over (no further Publisher call).
C1_AtMostOnePublish ==
    /\ Len(delivered) <= 1
    /\ (delivered # <<>>) => (pc = "done")

\* C2: an id that was delivered is not delivered again, in the same run or in
\* a run that starts less than RETENTION_DAYS after that delivery.
C2_NoDuplicatePost ==
    [][ \A x \in Ids :
          (Attempts(x) /\ delivered' # delivered /\ sent_at[x] # None)
            => (run_start - sent_at[x][1] >= RETENTION_DAYS * SecondsPerDay) ]_vars

\* C3: no candidate whose id is a key of the ledger is in the output of
\* filter_articles.
C3_Dedup ==
    AfterFilter =>
        \A j \in 1..Len(candidates) : candidates[j].id \notin DOMAIN posted_articles

C3_Witness ==
    /\ AfterFilter
    /\ candidates # <<>>
    /\ \E j \in 1..Len(raw) :
        /\ raw[j].id \in DOMAIN posted_articles
        /\ ~Excluded(raw[j])
        /\ Score(raw[j]) >= 2

\* C4 as stated: clean_old_posts removes exactly the entries with a non-null
\* timestamp older than the cutoff, so an entry exactly at the cutoff is kept.
C4_PruneKeepsCutoff ==
    [][ (pc = "loaded" /\ pc' # "loaded") =>
          posted_articles' =
            Restrict(posted_articles,
                     {x \in DOMAIN posted_articles :
                        posted_articles[x] = None \/ posted_articles[x][1] >= Cutoff}) ]_vars

\* C4 as amended: clean_old_posts removes exactly the entries with a non-null
\* timestamp at or before the cutoff and leaves every other entry as it was.
C4_PruneExact ==
    [][ (pc = "loaded" /\ pc' # "loaded") =>
          /\ DOMAIN posted_articles' \subseteq DOMAIN posted_articles
          /\ \A x \in DOMAIN posted_articles :
                /\ (x \notin DOMAIN posted_articles') <=>
                      (posted_articles[x] # None /\ posted_articles[x][1] <= Cutoff)
                /\ (x \in DOMAIN posted_articles') =>
                      (posted_articles'[x] = posted_articles[x]) ]_vars

C4_Witness ==
    /\ pc = "cleaned"
    /\ \E x \in DOMAIN pruned : pruned[x] = Some(Cutoff)
    /\ \E x \in DOMAIN posted_articles : posted_articles[x] = None

C6_FirstSuccess ==
    (pc = "done" /\ delivered # <<>>) =>
        /\ Len(delivered) = 1
        /\ Gained = {delivered[1]}

\* C7: an id enters the ledger only in the iteration that delivered it, and
\* after a Rewriter or Publisher failure the candidate's id is not in the ledger.
C7_RecordOnlyOnSuccess ==
    /\ \A x \in Gained : \E j \in 1..Len(delivered) : delivered[j] = x
    /\ (last.rewrite = "fail" \/ last.send = "raise") =>
          (last.id \notin DOMAIN posted_articles)

\* C8: no candidate whose lower-cased text holds an exclude-term is in the
\* output of filter_articles.
C8_ExclusionDominance ==
    AfterFilter => \A j \in 1..Len(candidates) : ~Excluded(candidates[j])

C8_Witness ==
    /\ AfterFilter
    /\ candidates # <<>>
    /\ \E j \in 1..Len(raw) :
        /\ Excluded(raw[j])
        /\ Score(raw[j]) >= 2
        /\ Locale(raw[j])
        /\ raw[j].id \notin DOMAIN posted_articles

\* C9 as stated: a record with one require-term is dropped, and a record not in
\* the ledger with two require-terms and no exclude-term is in the output.
C9_RequireThreshold ==
    AfterFilter =>
        \A j \in 1..Len(raw) :
            /\ (Score(raw[j]) = 1) => ~InOutput(raw[j])
            /\ (Score(raw[j]) = 2 /\ Eligible(raw[j])) => InOutput(raw[j])

\* C9 as amended: a record with one require-term is dropped; a record not in
\* the ledger with two require-terms and no exclude-term is in the output
\* exactly when it matches a locale-term or no eligible record of the batch does.
C9_RequireThresholdLocale ==
    AfterFilter =>
        \A j \in 1..Len(raw) :
            /\ (Score(raw[j]) = 1) => ~InOutput(raw[j])
            /\ (Score(raw[j]) = 2 /\ Eligible(raw[j])) =>
                  (InOutput(raw[j]) <=> (Locale(raw[j]) \/ LocaleAt = {}))

C9_Witness ==
    /\ AfterFilter
    /\ \E j \in 1..Len(raw) : Score(raw[j]) = 1 /\ ~Excluded(raw[j])
    /\ \E j \in 1..Len(raw) : Score(raw[j]) = 2 /\ Eligible(raw[j]) /\ InOutput(raw[j])

\* C10: when an eligible record matches a locale-term the output is the locale
\* bucket alone, otherwise it is the general bucket.
C10_LocaleDominance ==
    AfterFilter =>
        LET chosen == IF LocaleAt # {} THEN LocaleAt ELSE EligibleAt
        IN  /\ Len(candidates) = Cardinality(chosen)
            /\ {candidates[j] : j \in 1..Len(candidates)} = {raw[j] : j \in chosen}

C10_Witness ==
    /\ AfterFilter
    /\ LocaleAt # {}
    /\ EligibleAt \ LocaleAt # {}

\* the positions of raw that filter_articles returns: the locale bucket when it
\* is not empty, the general bucket otherwise
ChosenAt == IF LocaleAt # {} THEN LocaleAt ELSE EligibleAt

\* C11: the output of filter_articles is in non-increasing order of
\* published_parsed, and records with equal published_parsed keep the relative
\* order they had in the input list.
C11_Ranking ==
    AfterFilter =>
        /\ \A i, j \in 1..Len(candidates) :
              (i < j) => (candidates[i].published_parsed >= candidates[j].published_parsed)
        /\ \E pos \in [1..Len(candidates) -> ChosenAt] :
              /\ \A i \in 1..Len(candidates) : raw[pos[i]] = candidates[i]
              /\ \A i, j \in 1..Len(candidates) :
                    (i < j) =>
                      /\ pos[i] # pos[j]
                      /\ (candidates[i].published_parsed = candidates[j].published_parsed)
                            => (pos[i] < pos[j])

C11_Witness ==
    /\ AfterFilter
    /\ Len(candidates) >= 2
    /\ candidates[1].published_parsed = candidates[2].published_parsed
    /\ candidates[1] # candidates[2]
    /\ candidates[1] = raw[1]

\* C12: whatever fails in a Source Adapter, collecting ends with the filter
\* applied to what the adapters that answered returned (a failing adapter
\* counting as an empty sequence), and the run is not aborted.
C12_SourceIsolation ==
    [][ (pc = "cleaned") =>
          /\ pc' \in {"attempting", "done"}
          /\ \E up \in [1..4 -> BOOLEAN] :
                LET got == load_articles_from_sites(sites, up)
                IN  /\ Len(raw') = Len(got)
                    /\ \A j \in 1..Len(got) : raw'[j].id = got[j].id ]_vars

\* C13: no exception leaves autopost, whichever adapter, Rewriter, Illustrator,
\* Publisher or ledger-file operation fails during the run.
C13_NoCrash == pc # "crashed"

\* C14: when every collected id is a ledger key filter_articles returns the
\* empty list; and when it returns the empty list the run is over at once, with
\* no Rewriter, Illustrator or Publisher call made, no message delivered and
\* the ledger and its file as the prune left them.
C14_NoOpRun ==
    [][ /\ (pc = "cleaned" /\ pc' # "crashed") =>
              /\ (\A j \in 1..Len(raw') : raw'[j].id \in DOMAIN posted_articles)
                    => (candidates' = <<>>)
              /\ (candidates' = <<>>) =>
                    /\ pc' = "done"
                    /\ last' = NoAttempt
                    /\ delivered' = <<>>
                    /\ posted_articles' = posted_articles
                    /\ posted_file' = posted_file
                    /\ sent_at' = sent_at
                    /\ images' = images
        /\ (pc = "done" /\ candidates = <<>>) =>
              /\ pc' = "off"
              /\ posted_file' = posted_file
              /\ sent_at' = sent_at
              /\ images' = images ]_vars

C14_Witness ==
    /\ pc = "done"
    /\ runs = 2
    /\ raw # <<>>
    /\ candidates = <<>>
    /\ \A j \in 1..Len(raw) : raw[j].id \in DOMAIN posted_articles
    /\ \A x \in Ids : sent_at[x] = None

\* C15: when short_summary gave a text and generate_image gave no file, the
\* Publisher is called for that candidate with the text alone (send_message,
\* no file to remove), and when that send succeeds save_posted records the
\* candidate's id with the current time.
C15_IllustratorNonFatal ==
    (last.rewrite = "ok" /\ last.img = 0) =>
        /\ last.send \in {"ok", "raise"}
        /\ last.remove = "skipped"
        /\ (last.send = "ok") =>
              /\ delivered # <<>>
              /\ delivered[Len(delivered)] = last.id
              /\ last.save # "skipped"
              /\ last.id \in DOMAIN posted_articles
              /\ posted_articles[last.id] = Some(now)

C15_Witness ==
    /\ pc = "done"
    /\ last.rewrite = "ok"
    /\ last.img = 0
    /\ last.send = "ok"
    /\ last.save = "ok"
    /\ LoadPosted(posted_file) = posted_articles

\* C16: when clean_old_posts or save_posted has run and the run goes on,
\* POSTED_FILE holds exactly the in-memory ledger (the same ids with the same
\* timestamps, nulls included): loading the file gives the in-memory ledger back.
C16_PersistedAfterMutation ==
    [][ ((pc = "loaded" /\ pc' = "cleaned") \/ (pc = "attempting" /\ last'.save # "skipped"))
          => (LoadPosted(posted_file') = posted_articles') ]_vars

\* the positions of candidates[:5] whose iteration has been run so far
AttemptedAt ==
    1..(IF pc = "done" /\ last.save = "ok" THEN idx ELSE idx - 1)

\* C17: in one run no two iterations of the loop are given candidates with the
\* same id, so the Rewriter is called at most once for each id; stated for the
\* runs in which every attempt so far has failed (nothing delivered).
C17_NoRepeatedAttempt ==
    (delivered = <<>>) =>
        \A i, j \in AttemptedAt : (i # j) => (candidates[i].id # candidates[j].id)

\* C18: the image file that generate_image returned in an iteration is gone
\* from the working directory when the iteration is over, whether the send
\* succeeded or raised (os.remove itself not failing).
C18_ImagesRemoved ==
    (last.img # 0 /\ last.remove # "raise") => (last.img \notin images)

\* C19: the loop takes the candidates in the order of the filter's output, one
\* position after the other, and never goes past the fifth; when none of the
\* attempts has delivered a message the run ends with no id of a candidate in
\* the ledger and the ledger file as the prune wrote it, however many
\* survivors there are.
C19_BoundedPrefix ==
    /\ \A i \in AttemptedAt : i <= 5 /\ i <= Len(candidates)
    /\ (pc = "attempting") => (idx <= 5 /\ idx <= Len(candidates))
    /\ (pc \in {"attempting", "done"} /\ AttemptedAt # {}) =>
          (last.id = candidates[Cardinality(AttemptedAt)].id)
    /\ (pc \in {"attempting", "done"} /\ AttemptedAt = {}) => (last = NoAttempt)
    /\ (pc = "done" /\ delivered = <<>>) =>
          /\ Gained = {}
          /\ LoadPosted(posted_file) = posted_articles
          /\ (candidates # <<>>) =>
                (Cardinality(AttemptedAt) = (IF Len(candidates) < 5 THEN Len(candidates) ELSE 5))

C19_Witness ==
    /\ pc = "done"
    /\ delivered = <<>>
    /\ Len(candidates) >= 6
    /\ Cardinality(AttemptedAt) = 5
    /\ last.id = candidates[5].id
    /\ candidates[6].id \notin DOMAIN posted_articles

\* C20: in an iteration where short_summary returned no text generate_image
\* is not called (no file is written) and nothing is sent, removed or recorded;
\* and an iteration calls generate_image or the Publisher only after
\* short_summary has returned a text for its candidate.
C20_RewriteFailureSkips ==
    [][ (pc = "attempting") =>
          /\ (last'.rewrite = "fail") =>
                /\ last'.img = 0
                /\ last'.send = "skipped"
                /\ last'.remove = "skipped"
                /\ last'.save = "skipped"
                /\ images' = images
                /\ delivered' = delivered
                /\ posted_articles' = posted_articles
                /\ posted_file' = posted_file
                /\ idx' = idx + 1
          /\ (last'.img # 0 \/ last'.send # "skipped" \/ delivered' # delivered
                \/ images' # images)
                => (last'.rewrite = "ok") ]_vars

C20_Witness ==
    /\ pc = "attempting"
    /\ idx = 2
    /\ last.rewrite = "fail"
    /\ last.id = candidates[1].id
    /\ candidates[2].id # candidates[1].id
    /\ delivered = <<>>
    /\ images = {}
    /\ last.id \notin DOMAIN posted_articles

====
